---- MODULE Spec2Model ----
(***************************************************************************)
(* Model of tronapi: the session fields of class Tron (main.py), the       *)
(* event query Tron.get_event_result (main.py) and                         *)
(* TransactionBuilder.send_trx (transactions.py).                          *)
(*                                                                         *)
(* The address/key codec (tronapi.base.account), the validators            *)
(* (tronapi.base.validation, tronapi.utils.types) and the currency helper  *)
(* are not part of the two source files; they are modelled after their     *)
(* contract in spec.md sections 4.1, 4.2 and 8.                            *)
(***************************************************************************)
EXTENDS Integers, Sequences, FiniteSets, TLC

VARIABLES phase, private_key, default_address, default_block, requests, lastCall

vars == <<phase, private_key, default_address, default_block, requests, lastCall>>

(***************************************************************************)
(* Bounds                                                                  *)
(***************************************************************************)
NumKeys == 2
MaxBlock == 2
MaxRequests == 2

(***************************************************************************)
(* Python values.  A float is kept as its number of halves (h = 2 * x),    *)
(* so 10.5 is PyFloat(21) and 0.0 is PyFloat(0).                               *)
(***************************************************************************)
None == [t |-> "none"]
Absent == [t |-> "absent"]
PyStr(s) == [t |-> "str", s |-> s]
PyInt(n) == [t |-> "int", v |-> n]
PyFloat(h) == [t |-> "float", h |-> h]

IsNum(x) == x.t \in {"int", "float"}
Halves(x) == IF x.t = "int" THEN 2 * x.v ELSE x.h
Abs(n) == IF n < 0 THEN -n ELSE n

\* Python ==, for the values the model uses (1 == 1.0, 0 == 0.0)
PyEq(x, y) == IF IsNum(x) /\ IsNum(y) THEN Halves(x) = Halves(y) ELSE x = y
\* Python truthiness of a value
Truthy(x) ==
    CASE x.t = "none" -> FALSE
      [] IsNum(x) -> Halves(x) # 0
      [] OTHER -> TRUE

RECURSIVE ToDigits(_, _, _)
ToDigits(v, base, n) ==
    IF n = 0 THEN <<>> ELSE Append(ToDigits(v \div base, base, n - 1), v % base)

RECURSIVE FromDigits(_, _)
FromDigits(ds, base) ==
    IF ds = <<>> THEN 0
    ELSE FromDigits(SubSeq(ds, 1, Len(ds) - 1), base) * base + ds[Len(ds)]

(***************************************************************************)
(* Key/address codec and validators (spec.md 4.1, 4.2)                     *)
(***************************************************************************)
VersionByte == 65
HexAddressLen == 4
Base58AddressLen == 3
KeyLen == 2
ChecksumModulus == 97
SunPerTrx == 1000000

HexStr(ds, upper) == [t |-> "hexstr", digits |-> ds, upper |-> upper]
B58Str(ds, c) == [t |-> "b58str", digits |-> ds, check |-> c]

Checksum(v) == (v * 31 + 7) % ChecksumModulus

HexAddress(payload) == HexStr(ToDigits(VersionByte * 256 + payload, 16, HexAddressLen), FALSE)
Base58Address(payload) ==
    B58Str(ToDigits(VersionByte * 256 + payload, 58, Base58AddressLen),
           Checksum(VersionByte * 256 + payload))

is_hex(value) == value.t = "hexstr"

is_address(value) ==
    CASE value.t = "hexstr" ->
            /\ Len(value.digits) = HexAddressLen
            /\ FromDigits(value.digits, 16) \div 256 = VersionByte
      [] value.t = "b58str" ->
            /\ Len(value.digits) = Base58AddressLen
            /\ value.check = Checksum(FromDigits(value.digits, 58))
            /\ FromDigits(value.digits, 58) \div 256 = VersionByte
      [] OTHER -> FALSE

is_integer(value) == value.t = "int"

base58_to_hex(b58) == HexStr(ToDigits(FromDigits(b58.digits, 58), 16, HexAddressLen), FALSE)
hex_to_base58(hex) ==
    B58Str(ToDigits(FromDigits(hex.digits, 16), 58, Base58AddressLen),
           Checksum(FromDigits(hex.digits, 16)))

\* Account.to_hex / Account.from_hex: either form in, one form out
to_hex(address) == IF is_hex(address) THEN HexStr(address.digits, FALSE) ELSE base58_to_hex(address)
from_hex(address) == IF is_hex(address) THEN hex_to_base58(address) ELSE address

\* PrivateKey(value): raises ValueError unless value is a valid scalar
PrivateKeyValid(value) ==
    /\ value.t = "hexstr"
    /\ Len(value.digits) = KeyLen
    /\ FromDigits(value.digits, 16) >= 1
\* str(private_key).lower()
KeyLower(value) == HexStr(value.digits, FALSE)

derive_address(key) ==
    LET payload == (FromDigits(key.digits, 16) * 37 + 11) % 256
    IN  [hex |-> HexAddress(payload), base58 |-> Base58Address(payload)]

\* Account.from_private_key(key): fails when key is not a valid scalar (None included)
from_private_key_raises(key) == ~PrivateKeyValid(key)

\* to_tron(amount): display units to the smallest unit
to_tron(amount) == (Halves(amount) * SunPerTrx) \div 2

(***************************************************************************)
(* Inputs                                                                  *)
(***************************************************************************)
KeyScalar(k) == 160 + k
KeyStr(k, upper) == HexStr(ToDigits(KeyScalar(k), 16, KeyLen), upper)
PayloadOf(k) == (KeyScalar(k) * 37 + 11) % 256

GoodKeys == {KeyStr(k, u) : k \in 1..NumKeys, u \in BOOLEAN}
BadKeys == {None, HexStr(<<10>>, FALSE), HexStr(<<0, 0>>, FALSE)}
KeyInputs == GoodKeys \cup BadKeys

\* addresses of the keys 1..NumKeys, and of one key the session never holds
GoodAddresses ==
    {HexAddress(PayloadOf(k)) : k \in 1..(NumKeys + 1)}
        \cup {Base58Address(PayloadOf(k)) : k \in 1..(NumKeys + 1)}
WrongVersionHex == HexStr(ToDigits((VersionByte + 1) * 256 + 9, 16, HexAddressLen), FALSE)
BadChecksumB58 ==
    B58Str(ToDigits(VersionByte * 256 + 9, 58, Base58AddressLen),
           (Checksum(VersionByte * 256 + 9) + 1) % ChecksumModulus)
BadAddresses == {None, WrongVersionHex, BadChecksumB58}
AddressInputs == GoodAddresses \cup BadAddresses

BlockInputs ==
    {PyStr("latest"), PyStr("earliest"), PyStr("soon"), PyFloat(0), PyFloat(3)}
        \cup {PyInt(n) : n \in (0 - MaxBlock)..MaxBlock}

(***************************************************************************)
(* Session state of class Tron                                             *)
(***************************************************************************)
EmptyAddress == [hex |-> None, base58 |-> None]

Session == [private_key |-> private_key,
            default_address |-> default_address,
            default_block |-> default_block]

Returned(s) == [raised |-> "none", s |-> s]
Raised(e, s) == [raised |-> e, s |-> s]

\* main.py 113-123
default_block_setter(s, block_id) ==
    IF \E c \in {PyStr("latest"), PyStr("earliest"), PyInt(0)} : PyEq(block_id, c)
    THEN Returned([s EXCEPT !.default_block = block_id])
    ELSE IF ~is_integer(block_id) \/ ~Truthy(block_id)
         THEN Raised("ValueError", s)
         ELSE Returned([s EXCEPT !.default_block = PyInt(Abs(block_id.v))])

\* variant: a new key also drops the held default address
private_key_setter_resets_address(s, value) ==
    IF ~PrivateKeyValid(value)
    THEN Raised("TronError", s)
    ELSE Returned([s EXCEPT !.private_key = KeyLower(value),
                            !.default_address = EmptyAddress])

\* main.py 135-148
private_key_setter(s, value) ==
    IF ~PrivateKeyValid(value)
    THEN Raised("TronError", s)
    ELSE Returned([s EXCEPT !.private_key = KeyLower(value)])

\* variant: the stale key is never cleared
default_address_setter_keeps_key(s, address) ==
    IF ~is_address(address)
    THEN Raised("InvalidTronError", s)
    ELSE IF from_private_key_raises(s.private_key)
         THEN Raised("InvalidKeyError", s)
         ELSE Returned([s EXCEPT
                  !.default_address = [hex |-> to_hex(address), base58 |-> from_hex(address)]])

\* variant: == in place of != in the address comparison
default_address_setter_inverted(s, address) ==
    IF ~is_address(address)
    THEN Raised("InvalidTronError", s)
    ELSE IF from_private_key_raises(s.private_key)
         THEN Raised("InvalidKeyError", s)
         ELSE LET _base58 == from_hex(address)
                  _private_base58 == derive_address(s.private_key).base58
                  cleared == IF Truthy(s.private_key) /\ _private_base58 = _base58
                             THEN [s EXCEPT !.private_key = None]
                             ELSE s
              IN  Returned([cleared EXCEPT
                      !.default_address = [hex |-> to_hex(address), base58 |-> _base58]])

\* main.py 155-179
default_address_setter(s, address) ==
    IF ~is_address(address)
    THEN Raised("InvalidTronError", s)
    ELSE IF from_private_key_raises(s.private_key)
         THEN Raised("InvalidKeyError", s)
         ELSE LET _hex == to_hex(address)
                  _base58 == from_hex(address)
                  _private_base58 == derive_address(s.private_key).base58
                  cleared == IF Truthy(s.private_key) /\ _private_base58 # _base58
                             THEN [s EXCEPT !.private_key = None]
                             ELSE s
              IN  Returned([cleared EXCEPT
                      !.default_address = [hex |-> _hex, base58 |-> _base58]])

\* main.py 67-107: the two setter calls of __init__
init_session(s, kwargs) ==
    LET r1 == IF kwargs.private_key # Absent
              THEN private_key_setter(s, kwargs.private_key)
              ELSE Returned(s)
    IN  IF r1.raised # "none" THEN r1
        ELSE IF kwargs.default_address # Absent
             THEN default_address_setter(r1.s, kwargs.default_address)
             ELSE r1

Call(op, arg, outcome) == [op |-> op, arg |-> arg, outcome |-> outcome]
Outcome(raised) == IF raised = "none" THEN "ok" ELSE raised

Install(r) ==
    /\ private_key' = r.s.private_key
    /\ default_address' = r.s.default_address
    /\ default_block' = r.s.default_block

Init ==
    /\ phase = "new"
    /\ private_key = None
    /\ default_address = EmptyAddress
    /\ default_block = None
    /\ requests = <<>>
    /\ lastCall = Call("none", None, "ok")

Construct(kwargs) ==
    /\ phase = "new"
    /\ LET r == init_session(Session, kwargs)
       IN  /\ Install(r)
           /\ phase' = IF r.raised = "none" THEN "ready" ELSE "failed"
           /\ lastCall' = Call("init", kwargs, Outcome(r.raised))
    /\ UNCHANGED requests

SetDefaultBlock(block_id) ==
    /\ phase = "ready"
    /\ LET r == default_block_setter(Session, block_id)
       IN  /\ Install(r)
           /\ lastCall' = Call("set_default_block", block_id, Outcome(r.raised))
    /\ UNCHANGED <<phase, requests>>

SetPrivateKey(value) ==
    /\ phase = "ready"
    /\ LET r == private_key_setter(Session, value)
       IN  /\ Install(r)
           /\ lastCall' = Call("set_private_key", value, Outcome(r.raised))
    /\ UNCHANGED <<phase, requests>>

SetDefaultAddress(address) ==
    /\ phase = "ready"
    /\ LET r == default_address_setter(Session, address)
       IN  /\ Install(r)
           /\ lastCall' = Call("set_default_address", address, Outcome(r.raised))
    /\ UNCHANGED <<phase, requests>>

KwargsInputs ==
    [private_key : KeyInputs \cup {Absent}, default_address : AddressInputs \cup {Absent}]

Next ==
    \/ \E kwargs \in KwargsInputs : Construct(kwargs)
    \/ \E block_id \in BlockInputs : SetDefaultBlock(block_id)
    \/ \E value \in KeyInputs : SetPrivateKey(value)
    \/ \E address \in AddressInputs : SetDefaultAddress(address)

Spec == Init /\ [][Next]_vars

(***************************************************************************)
(* TransactionBuilder.send_trx (transactions.py)                           *)
(***************************************************************************)
\* Account.to_hex fails on an address with a bad checksum or length
to_hex_raises(address) == ~is_address(address)

NoRequest(e) == [raised |-> e, sent |-> <<>>]

TxRequest(_to, _from, amount) ==
    [path |-> "/wallet/createtransaction",
     params |-> [to_address |-> _to, owner_address |-> _from, amount |-> to_tron(amount)],
     method |-> "post"]

\* variant: the two arguments are compared as given, not in hex form
send_trx_raw_compare(to, amount, account) ==
    IF ~is_address(to)
    THEN NoRequest("InvalidTronError: Invalid recipient address provided")
    ELSE IF amount.t # "float" /\ ~IsNum(amount)
    THEN NoRequest("TypeError")
    ELSE IF amount.t # "float" /\ Halves(amount) <= 0
    THEN NoRequest("InvalidTronError: Invalid amount provided")
    ELSE IF to_hex_raises(account)
    THEN NoRequest("InvalidAddressError")
    ELSE IF to = account
         THEN NoRequest("TronError: Cannot transfer TRX to the same account")
         ELSE [raised |-> "none", sent |-> <<TxRequest(to_hex(to), to_hex(account), amount)>>]

\* variant: the same-account check runs before the amount check
send_trx_same_account_first(to, amount, account) ==
    IF ~is_address(to)
    THEN NoRequest("InvalidTronError: Invalid recipient address provided")
    ELSE IF to_hex_raises(account)
    THEN NoRequest("InvalidAddressError")
    ELSE IF to_hex(to) = to_hex(account)
    THEN NoRequest("TronError: Cannot transfer TRX to the same account")
    ELSE IF amount.t # "float" /\ ~IsNum(amount)
    THEN NoRequest("TypeError")
    ELSE IF amount.t # "float" /\ Halves(amount) <= 0
    THEN NoRequest("InvalidTronError: Invalid amount provided")
    ELSE [raised |-> "none", sent |-> <<TxRequest(to_hex(to), to_hex(account), amount)>>]

\* transactions.py 8-37
send_trx(to, amount, account) ==
    IF ~is_address(to)
    THEN NoRequest("InvalidTronError: Invalid recipient address provided")
    ELSE IF amount.t # "float" /\ ~IsNum(amount)
    THEN NoRequest("TypeError")
    ELSE IF amount.t # "float" /\ Halves(amount) <= 0
    THEN NoRequest("InvalidTronError: Invalid amount provided")
    ELSE IF to_hex_raises(account)
    THEN NoRequest("InvalidAddressError")
    ELSE LET _to == to_hex(to)
             _from == to_hex(account)
         IN  IF _to = _from
             THEN NoRequest("TronError: Cannot transfer TRX to the same account")
             ELSE [raised |-> "none", sent |-> <<TxRequest(_to, _from, amount)>>]

TxTo == {HexAddress(PayloadOf(1)), Base58Address(PayloadOf(1)),
         HexAddress(PayloadOf(2)), BadChecksumB58}
TxAccount == {HexAddress(PayloadOf(1)), Base58Address(PayloadOf(1)),
              Base58Address(PayloadOf(2)), BadChecksumB58}
TxAmount == {PyInt(0), PyInt(-5), PyInt(2), PyFloat(0), PyFloat(-10), PyFloat(21),
             PyStr("ten")}

SendTrx(to, amount, account) ==
    /\ phase = "ready"
    /\ Len(requests) < MaxRequests
    /\ LET r == send_trx(to, amount, account)
       IN  /\ requests' = requests \o r.sent
           /\ lastCall' = Call("send_trx",
                               [to |-> to, amount |-> amount, account |-> account],
                               Outcome(r.raised))
    /\ UNCHANGED <<phase, private_key, default_address, default_block>>

InitReady ==
    /\ phase = "ready"
    /\ private_key = None
    /\ default_address = EmptyAddress
    /\ default_block = None
    /\ requests = <<>>
    /\ lastCall = Call("none", None, "ok")

NextTx == \E to \in TxTo, amount \in TxAmount, account \in TxAccount :
              SendTrx(to, amount, account)

SpecTx == InitReady /\ [][NextTx]_vars

(***************************************************************************)
(* Tron.get_event_result (main.py)                                         *)
(***************************************************************************)
MaxEventSize == 200

RouteParams(contract_address, event_name, block_number) ==
    (IF Truthy(contract_address) THEN <<contract_address>> ELSE <<>>)
        \o (IF Truthy(event_name) THEN <<event_name>> ELSE <<>>)
        \o (IF Truthy(block_number) THEN <<block_number>> ELSE <<>>)

\* main.py 181-231
get_event_result(contract_address, since, event_name, block_number, size, page) ==
    IF ~is_address(contract_address)
    THEN NoRequest("InvalidTronError: Invalid contract address provided")
    ELSE IF Truthy(event_name) /\ ~Truthy(contract_address)
    THEN NoRequest("TronError: Usage of event name filtering requires a contract address")
    ELSE IF Truthy(block_number) /\ event_name = None
    THEN NoRequest("TronError: Usage of block number filtering requires an event name")
    ELSE IF ~is_integer(page)
    THEN NoRequest("ValueError: Invalid size provided")
    ELSE IF ~is_integer(since)
    THEN NoRequest("ValueError: Invalid sinceTimestamp provided")
    ELSE IF Halves(size) > 2 * MaxEventSize
    THEN NoRequest("ValueError: Defaulting to maximum accepted size: 200")
    ELSE [raised |-> "none",
          sent |-> <<[path |-> "/event/contract",
                      route |-> RouteParams(contract_address, event_name, block_number),
                      since |-> since, size |-> size, page |-> page,
                      method |-> "get"]>>]

EvContract == {HexAddress(PayloadOf(1)), None}
EvSince == {PyInt(0), PyInt(-1), PyFloat(3)}
EvPage == {PyInt(1), PyInt(-1), PyFloat(3)}
EvSize == {PyInt(MaxEventSize), PyInt(MaxEventSize + 1)}
EvName == {None, PyStr("Transfer")}
EvBlock == {None, PyInt(7)}

GetEventResult(contract_address, since, event_name, block_number, size, page) ==
    /\ phase = "ready"
    /\ Len(requests) < MaxRequests
    /\ LET r == get_event_result(contract_address, since, event_name, block_number,
                                 size, page)
       IN  /\ requests' = requests \o r.sent
           /\ lastCall' = Call("get_event_result",
                               [contract_address |-> contract_address, since |-> since,
                                event_name |-> event_name, block_number |-> block_number,
                                size |-> size, page |-> page],
                               Outcome(r.raised))
    /\ UNCHANGED <<phase, private_key, default_address, default_block>>

NextEvents ==
    \E contract_address \in EvContract, since \in EvSince, event_name \in EvName,
       block_number \in EvBlock, size \in EvSize, page \in EvPage :
        GetEventResult(contract_address, since, event_name, block_number, size, page)

SpecEvents == InitReady /\ [][NextEvents]_vars

(***************************************************************************)
(* Properties                                                              *)
(***************************************************************************)
ErrRecipient == "InvalidTronError: Invalid recipient address provided"
ErrAmount == "InvalidTronError: Invalid amount provided"
ErrSameAccount == "TronError: Cannot transfer TRX to the same account"

SessionUnchanged ==
    /\ private_key' = private_key
    /\ default_address' = default_address
    /\ default_block' = default_block

\* "latest", "earliest", 0 or a positive integer
AcceptableBlock(b) ==
    \/ b \in {PyStr("latest"), PyStr("earliest")}
    \/ IsNum(b) /\ Halves(b) = 0
    \/ b.t = "int" /\ b.v > 0

SameAddress(a, b) == is_address(a) /\ is_address(b) /\ to_hex(a) = to_hex(b)

\* C1: a default_block set succeeds exactly for "latest", "earliest", 0 or a
\* positive integer and then holds that value; any other value raises and
\* default_block keeps its previous value.
C1_DefaultBlockValidation ==
    [][lastCall'.op = "set_default_block" =>
          IF AcceptableBlock(lastCall'.arg)
          THEN lastCall'.outcome = "ok" /\ PyEq(default_block', lastCall'.arg)
          ELSE lastCall'.outcome # "ok" /\ default_block' = default_block]_vars

\* C2: with a private key held, a default_address set to a well-formed address
\* clears the key when the address is not the one derived from the key and
\* keeps the key unchanged when it is.
C2_StaleKeyCleared ==
    [][(/\ lastCall'.op = "set_default_address"
        /\ private_key # None
        /\ is_address(lastCall'.arg)) =>
          /\ lastCall'.outcome = "ok"
          /\ private_key' = IF derive_address(private_key).hex = to_hex(lastCall'.arg)
                            THEN private_key
                            ELSE None]_vars

C2_Witness ==
    /\ lastCall.op = "set_default_address"
    /\ lastCall.outcome = "ok"
    /\ private_key = None
    /\ default_address.hex = to_hex(lastCall.arg)

KeyMatchesAddress == derive_address(private_key).hex = default_address.hex

\* C3 (as stated): whenever a private key and a default address are both held,
\* the address derived from the key is the default address.
C3_KeyAddressConsistent ==
    (phase = "ready" /\ private_key # None /\ default_address # EmptyAddress)
        => KeyMatchesAddress

\* C3 (amended): right after the constructor and right after a successful
\* default_address set, a held private key derives the held default address.
C3_ConsistentAfterAddressSet ==
    (/\ lastCall.op \in {"init", "set_default_address"}
     /\ lastCall.outcome = "ok"
     /\ private_key # None
     /\ default_address # EmptyAddress) => KeyMatchesAddress

C3_Witness ==
    /\ lastCall.op = "set_default_address"
    /\ lastCall.outcome = "ok"
    /\ private_key # None
    /\ lastCall.arg.t = "b58str"
    /\ default_address.base58 = lastCall.arg
    /\ KeyMatchesAddress

\* C4: a default_address set to a well-formed address succeeds in every session
\* state (no private key held included) and leaves both encodings of that
\* address, each converting to the other.
C4_AddressSetSucceeds ==
    (lastCall.op = "set_default_address" /\ is_address(lastCall.arg)) =>
        /\ lastCall.outcome = "ok"
        /\ default_address.hex = to_hex(lastCall.arg)
        /\ hex_to_base58(default_address.hex) = default_address.base58
        /\ base58_to_hex(default_address.base58) = default_address.hex

\* C5: a setter given a malformed key, an ill-formed address or an invalid
\* block raises and leaves private_key, default_address and default_block
\* as they were.
C5_NoPartialSideEffect ==
    [][(\/ lastCall'.op = "set_private_key" /\ ~PrivateKeyValid(lastCall'.arg)
        \/ lastCall'.op = "set_default_address" /\ ~is_address(lastCall'.arg)
        \/ lastCall'.op = "set_default_block" /\ ~AcceptableBlock(lastCall'.arg)) =>
          lastCall'.outcome # "ok" /\ SessionUnchanged]_vars

\* C6: send_trx with a well-formed recipient and a numeric amount that is not
\* positive (integer or float) raises the invalid-amount error and sends no
\* request.
C6_NonPositiveAmountRejected ==
    [][(/\ lastCall'.op = "send_trx"
        /\ is_address(lastCall'.arg.to)
        /\ IsNum(lastCall'.arg.amount)
        /\ Halves(lastCall'.arg.amount) <= 0) =>
          lastCall'.outcome = ErrAmount /\ requests' = requests]_vars

\* C7 (as stated): send_trx (given a numeric amount) raises the same-account
\* error and sends no request whenever recipient and account resolve to the
\* same hex address.
C7_SameAccountAlways ==
    [][(/\ lastCall'.op = "send_trx"
        /\ IsNum(lastCall'.arg.amount)
        /\ SameAddress(lastCall'.arg.to, lastCall'.arg.account)) =>
          lastCall'.outcome = ErrSameAccount /\ requests' = requests]_vars

\* the amount check of transactions.py line 24 lets the amount through
AmountCheckPasses(amount) == amount.t = "float" \/ (amount.t = "int" /\ amount.v > 0)

\* C7 (amended): when recipient and account resolve to the same hex address,
\* in whatever string forms, send_trx sends no request and raises; the error is
\* the same-account error whenever the amount gets past the amount check.
C7_SameAccountRejected ==
    [][(/\ lastCall'.op = "send_trx"
        /\ SameAddress(lastCall'.arg.to, lastCall'.arg.account)) =>
          /\ requests' = requests
          /\ lastCall'.outcome # "ok"
          /\ AmountCheckPasses(lastCall'.arg.amount) => lastCall'.outcome = ErrSameAccount
          /\ ~AmountCheckPasses(lastCall'.arg.amount) =>
                lastCall'.outcome \in {ErrAmount, "TypeError"}]_vars

C7_Witness ==
    /\ lastCall.op = "send_trx"
    /\ lastCall.arg.to # lastCall.arg.account
    /\ SameAddress(lastCall.arg.to, lastCall.arg.account)
    /\ lastCall.outcome = ErrSameAccount

\* C8: send_trx checks the recipient, then the amount, then same-account, all
\* before the network call: one "/wallet/createtransaction" request when every
\* check passes, none when a check fails, never more than one.
C8_ChecksBeforeRequest ==
    [][lastCall'.op = "send_trx" =>
          LET a == lastCall'.arg
              recipientOK == is_address(a.to)
              amountOK == AmountCheckPasses(a.amount)
              distinctOK == is_address(a.account) /\ to_hex(a.to) # to_hex(a.account)
          IN  /\ ~recipientOK => lastCall'.outcome = ErrRecipient
              /\ (recipientOK /\ ~amountOK) => lastCall'.outcome \in {ErrAmount, "TypeError"}
              /\ (recipientOK /\ amountOK /\ ~distinctOK) =>
                    lastCall'.outcome \in {ErrSameAccount, "InvalidAddressError"}
              /\ (recipientOK /\ amountOK /\ distinctOK) =>
                    /\ lastCall'.outcome = "ok"
                    /\ Len(requests') = Len(requests) + 1
                    /\ SubSeq(requests', 1, Len(requests)) = requests
                    /\ requests'[Len(requests')].path = "/wallet/createtransaction"
                    /\ requests'[Len(requests')].params.to_address = to_hex(a.to)
                    /\ requests'[Len(requests')].params.owner_address = to_hex(a.account)
              /\ lastCall'.outcome # "ok" => requests' = requests]_vars

C8_Witness ==
    /\ lastCall.op = "send_trx"
    /\ lastCall.outcome = "ok"
    /\ Len(requests) = 2
    /\ requests[2].path = "/wallet/createtransaction"
    /\ requests[2].params.to_address = to_hex(lastCall.arg.to)

\* C9: get_event_result sends a request only when size <= 200 and page and
\* since are non-negative integers.
C9_EventParamsValidated ==
    [][(lastCall'.op = "get_event_result" /\ requests' # requests) =>
          LET a == lastCall'.arg
          IN  /\ Halves(a.size) <= 2 * MaxEventSize
              /\ is_integer(a.page) /\ a.page.v >= 0
              /\ is_integer(a.since) /\ a.since.v >= 0]_vars

\* C10: a default_block set changes neither private_key nor default_address, a
\* private_key set changes neither default_address nor default_block, a
\* default_address set does not change default_block and changes private_key
\* only by clearing it.
C10_FieldsIndependent ==
    [][/\ lastCall'.op = "set_default_block" =>
            private_key' = private_key /\ default_address' = default_address
       /\ lastCall'.op = "set_private_key" =>
            default_address' = default_address /\ default_block' = default_block
       /\ lastCall'.op = "set_default_address" =>
            /\ default_block' = default_block
            /\ private_key' \in {private_key, None}]_vars

C10_Witness ==
    /\ lastCall.op = "set_private_key"
    /\ lastCall.outcome = "ok"
    /\ private_key = KeyLower(lastCall.arg)
    /\ default_address # EmptyAddress
    /\ ~KeyMatchesAddress
    /\ default_block # None

TypeOK ==
    /\ phase \in {"new", "ready", "failed"}
    /\ Len(requests) <= MaxRequests
====
